---- MODULE Spec2Model ----
(***************************************************************************)
(* A model of the regex template tag: option resolution, the flag-x        *)
(* preprocessor, context-aware interpolation, the plugin pipeline with     *)
(* its cleanup stage, and the capture map of the RegExp subclass.          *)
(*                                                                         *)
(* Text is modelled as a sequence of one-character strings, so that every  *)
(* regular expression of the source becomes a scan over characters.        *)
(***************************************************************************)
EXTENDS Integers, Sequences, FiniteSets, TLC

\* ------------------------------------------------------------------ bounds
\* longest flags string a caller passes
MaxFlagLen == 2
\* most user plugins a caller passes
MaxPlugins == 2
\* most holes (substitutions) of a template
MaxHoles == 2
\* most pieces (literals, groups) of a template compiled with subclass: true
MaxUnits == 3
\* calls of exec made
MaxExec == 1
\* WrappedRegExp objects alive
MaxWrappers == 2

\* ------------------------------------------------------------------- state
VARIABLES
  pc,                   \* where the call is
  flagVSupported,       \* the engine supports flag v
  patternModsSupported, \* the engine supports pattern modifiers (?i:...)
  thisArg,              \* what the tag was bound to with regex.bind
  options,              \* the options as the caller gave them
  template,             \* template.raw
  substitutions,        \* the values of the template's holes
  opts,                 \* the result of getOptions
  prepped,              \* the result of handlePreprocessors
  idx,                  \* forEach index over the raw segments (1-based)
  precedingCaptures,    \* the running capture count
  expression,           \* the expression assembled so far
  runningContext,       \* the tracker's context at the end of expression
  holes,                \* one record per call of interpolate, in order
  stages,               \* the plugins handlePlugins still has to run
  stageLog,             \* one record per plugin run: name, input, output
  result,               \* the object regexFromTemplate returned
  wrappers,             \* WrappedRegExp objects: their private captureMap
  execs,                \* the calls of exec made: wrapper, raw match, result
  error                 \* the message of the error thrown, or "none"

vars == <<pc, flagVSupported, patternModsSupported, thisArg, options, template, substitutions, opts, prepped, idx, precedingCaptures, expression, runningContext, holes, stages, stageLog, result, wrappers, execs, error>>

\* ------------------------------------------------------------ text helpers
BS == "\\"
NoChar == ""

At(s, i) == IF i >= 1 /\ i <= Len(s) THEN s[i] ELSE NoChar
Slice(s, i, n) == SubSeq(s, i, i + n - 1)
StartsWithAt(s, i, p) == i + Len(p) - 1 <= Len(s) /\ SubSeq(s, i, i + Len(p) - 1) = p

Digits == {"0", "1", "2", "3", "4", "5", "6", "7", "8", "9"}
HexLetters == {"a", "b", "c", "d", "e", "f", "A", "B", "C", "D", "E", "F"}
HexDigits == Digits \cup HexLetters
Letters == {"a", "b", "c", "d", "e", "f", "g", "i", "k", "l", "m", "n", "p", "q", "s", "u", "v", "w", "x", "y", "z", "A", "B", "C", "D", "E", "F", "I", "N", "P"}
WordChars == Letters \cup Digits \cup {"_"}
\* /\s/
WsChars == {" ", "\t", "\n", "\r", "\f"}
\* doublePunctuatorChars of utils.js (the backtick, which a TLA+ string cannot hold, is left out)
doublePunctuatorChars == {"&", "!", "#", "$", "%", "*", "+", ",", ".", ":", ";", "<", "=", ">", "?", "@", "^", "~"}

RECURSIVE RunOf(_, _, _, _)
\* the number of consecutive characters of s from position i that are in set, at most max
RunOf(s, i, set, max) == IF max = 0 \/ At(s, i) \notin set THEN 0 ELSE 1 + RunOf(s, i + 1, set, max - 1)

RECURSIVE Concat(_)
Concat(ss) == IF ss = <<>> THEN <<>> ELSE Head(ss) \o Concat(Tail(ss))

\* ------------------------------------------------------ the context tracker
DefaultContext == [regexContext |-> "DEFAULT", charClassContext |-> "DEFAULT", charClassDepth |-> 0, lastPos |-> 0]
enclosedTokenRegexContexts == {"ENCLOSED_P", "ENCLOSED_U"}
enclosedTokenCharClassContexts == {"ENCLOSED_P", "Q_TOKEN", "ENCLOSED_U"}

\* contextToken: the token of the tracker's scan that starts at position i, as
\* [len, kind]; the alternatives are tried in the order of the regular expression
contextTokenAt(s, i) ==
  LET c1 == At(s, i)
      c2 == At(s, i + 1)
      c3 == At(s, i + 2)
  IN  IF c1 = "(" /\ c2 = "?" /\ c3 = "<" /\ At(s, i + 3) \notin {"=", "!"} THEN [len |-> 3, kind |-> "groupN"]
      ELSE IF c1 = BS /\ c2 \in {"g", "k"} /\ c3 = "<" THEN [len |-> 3, kind |-> "groupN"]
      ELSE IF c1 = BS /\ c2 \in {"p", "P", "u"} /\ c3 = "{" THEN [len |-> 3, kind |-> "enclosedPU"]
      ELSE IF c1 = BS /\ c2 = "q" /\ c3 = "{" THEN [len |-> 3, kind |-> "enclosedQ"]
      ELSE IF c1 = "{" THEN [len |-> 1, kind |-> "intervalQ"]
      ELSE IF c1 = BS /\ c2 = NoChar THEN [len |-> 1, kind |-> "incompleteT"]
      ELSE IF c1 = BS /\ c2 = "c" /\ c3 \notin Letters THEN [len |-> 2, kind |-> "incompleteT"]
      ELSE IF c1 = BS /\ c2 = "u" /\ RunOf(s, i + 2, HexDigits, 4) < 4 THEN [len |-> 2 + RunOf(s, i + 2, HexDigits, 3), kind |-> "incompleteT"]
      ELSE IF c1 = BS /\ c2 = "x" /\ RunOf(s, i + 2, HexDigits, 2) < 2 THEN [len |-> 2 + RunOf(s, i + 2, HexDigits, 1), kind |-> "incompleteT"]
      ELSE IF c1 = "-" /\ c2 = "-" THEN [len |-> 2, kind |-> "other"]
      ELSE IF c1 = BS THEN [len |-> 2, kind |-> "other"]
      ELSE [len |-> 1, kind |-> "other"]

\* one round of the tracker's while loop: the context after token m of the given kind
advanceContext(rc, kind, m) ==
  IF m = <<"[">> THEN
    [rc EXCEPT !.charClassDepth = @ + 1, !.regexContext = "CHAR_CLASS", !.charClassContext = "DEFAULT"]
  ELSE IF m = <<"]">> /\ rc.regexContext = "CHAR_CLASS" THEN
    LET depth == IF rc.charClassDepth > 0 THEN rc.charClassDepth - 1 ELSE 0
    IN  [rc EXCEPT !.charClassDepth = depth,
                   !.regexContext = IF depth = 0 THEN "DEFAULT" ELSE @,
                   !.charClassContext = "DEFAULT"]
  ELSE IF rc.regexContext = "CHAR_CLASS" THEN
    IF kind = "incompleteT" THEN [rc EXCEPT !.charClassContext = "INVALID_INCOMPLETE_TOKEN"]
    ELSE IF m = <<"-">> THEN [rc EXCEPT !.charClassContext = "RANGE"]
    ELSE IF kind = "enclosedPU" THEN [rc EXCEPT !.charClassContext = IF m[2] = "u" THEN "ENCLOSED_U" ELSE "ENCLOSED_P"]
    ELSE IF kind = "enclosedQ" THEN [rc EXCEPT !.charClassContext = "Q_TOKEN"]
    ELSE IF \/ (m = <<"}">> /\ rc.charClassContext \in enclosedTokenCharClassContexts)
            \/ rc.charClassContext = "INVALID_INCOMPLETE_TOKEN"
            \/ rc.charClassContext = "RANGE"
         THEN [rc EXCEPT !.charClassContext = "DEFAULT"]
    ELSE rc
  ELSE
    IF kind = "incompleteT" THEN [rc EXCEPT !.regexContext = "INVALID_INCOMPLETE_TOKEN"]
    ELSE IF kind = "groupN" THEN [rc EXCEPT !.regexContext = "GROUP_NAME"]
    ELSE IF kind = "enclosedPU" THEN [rc EXCEPT !.regexContext = IF m[2] = "u" THEN "ENCLOSED_U" ELSE "ENCLOSED_P"]
    ELSE IF kind = "intervalQ" THEN [rc EXCEPT !.regexContext = "INTERVAL_QUANTIFIER"]
    ELSE IF \/ (m = <<">">> /\ rc.regexContext = "GROUP_NAME")
            \/ (m = <<"}">> /\ (rc.regexContext = "INTERVAL_QUANTIFIER" \/ rc.regexContext \in enclosedTokenRegexContexts))
            \/ rc.regexContext = "INVALID_INCOMPLETE_TOKEN"
         THEN [rc EXCEPT !.regexContext = "DEFAULT"]
    ELSE rc

RECURSIVE contextScan(_, _, _)
contextScan(s, i, rc) ==
  IF i > Len(s) THEN [rc EXCEPT !.lastPos = Len(s)]
  ELSE LET t == contextTokenAt(s, i)
       IN  contextScan(s, i + t.len, advanceContext(rc, t.kind, Slice(s, i, t.len)))

\* the context at the end of incompleteExpression, resumed from ctx.lastPos
getEndContextForIncompleteExpression(incompleteExpression, ctx) ==
  contextScan(incompleteExpression, ctx.lastPos + 1, ctx)

\* ------------------------------------------------- the flag-x preprocessor
Sep == <<"(", "?", ":", ")">>
emulationGroupMarker == <<"$", "E", "$">>
DefineWord == <<"D", "E", "F", "I", "N", "E">>

\* noncapturingDelim of utils.js: the length of a non-capturing group opener at i, or 0
noncapturingDelimLen(s, i) ==
  IF ~(At(s, i) = "(" /\ At(s, i + 1) = "?") THEN 0
  ELSE IF At(s, i + 2) \in ({":", "=", "!", ">", "-"} \cup Letters) THEN 3
  ELSE IF At(s, i + 2) = "<" /\ At(s, i + 3) \in {"=", "!"} THEN 4
  ELSE IF StartsWithAt(s, i + 2, <<"(">> \o DefineWord \o <<")">>) THEN 10
  ELSE 0

\* token (flag-x.js): the length of the token that starts at position i
flagXTokenLen(s, i) ==
  LET c1 == At(s, i)
      c2 == At(s, i + 1)
      c3 == At(s, i + 2)
  IN  IF c1 = BS /\ c2 \in {"g", "k"} /\ c3 = "<" THEN 3
      ELSE IF c1 = BS /\ c2 \in {"p", "P", "u"} /\ c3 = "{" THEN 3
      ELSE IF c1 = BS /\ c2 = "c" /\ c3 \in Letters THEN 3
      ELSE IF c1 = BS /\ c2 = "u" /\ RunOf(s, i + 2, HexDigits, 4) = 4 THEN 6
      ELSE IF c1 = BS /\ c2 = "x" /\ RunOf(s, i + 2, HexDigits, 2) = 2 THEN 4
      ELSE IF c1 = BS /\ c2 = "0" /\ c3 \in Digits THEN 2 + RunOf(s, i + 2, Digits, Len(s))
      ELSE IF c1 = "[" /\ c2 = "^" THEN 2
      ELSE IF noncapturingDelimLen(s, i) > 0 THEN noncapturingDelimLen(s, i)
      ELSE IF c1 = "(" /\ c2 = "?" /\ c3 = "<" THEN 3
      ELSE IF c1 \in doublePunctuatorChars /\ c2 = c1 THEN 2
      ELSE IF c1 = "-" /\ c2 = "-" THEN 2
      ELSE IF c1 = BS /\ c2 # NoChar THEN 2
      ELSE 1

\* sandboxUnsafeNulls of utils.js on one token: \0 not followed by a digit becomes \x00
sandboxUnsafeNullsToken(m) == IF m = <<BS, "0">> THEN <<BS, "x", "0", "0">> ELSE m

\* sandboxLoneDoublePunctuatorChar of utils.js: a leading double-punctuator
\* character that is not doubled is escaped (and repeated unless it is the whole text)
sandboxLoneDoublePunctuatorChar(str) ==
  IF Len(str) >= 1 /\ str[1] \in doublePunctuatorChars /\ At(str, 2) # str[1]
  THEN <<BS, str[1]>> \o (IF Len(str) = 1 THEN <<>> ELSE <<str[1]>>) \o Tail(str)
  ELSE str

\* what a preprocessor returns, out of its locals st
preprocessorResult(st) ==
  [transformed |-> st.transformed, runningContext |-> st.runningContext, error |-> st.error]

\* the locals of flagXPreprocessor as the loop starts
flagXStart(ctx) ==
  [ignoringWs |-> FALSE, ignoringCharClassWs |-> FALSE, ignoringComment |-> FALSE,
   expression |-> <<>>, transformed |-> <<>>, lastSignificantToken |-> <<>>,
   lastSignificantCharClassContext |-> "", separatorNeeded |-> FALSE,
   runningContext |-> ctx, error |-> "none"]

\* an update that puts the pending separator before every string
updatePrefixed(st, str, prefix, postfix) ==
  [st EXCEPT !.transformed = @ \o (IF st.separatorNeeded THEN Sep ELSE <<>>) \o str \o (IF postfix THEN Sep ELSE <<>>),
             !.separatorNeeded = FALSE]

\* update(str, {prefix, postfix}) of flagXPreprocessor
update(st, str, prefix, postfix) ==
  [st EXCEPT !.transformed = @ \o (IF st.separatorNeeded /\ prefix THEN Sep ELSE <<>>) \o str \o (IF postfix THEN Sep ELSE <<>>),
             !.separatorNeeded = FALSE]

\* the branches of the loop body after the three "ignoring" checks; st holds the
\* expression and the running context already advanced over token m
flagXBranch(st, m, regexContext, charClassContext) ==
  IF m = <<"-">> /\ regexContext = "CHAR_CLASS" /\ st.lastSignificantCharClassContext = "RANGE"
  THEN [st EXCEPT !.error = "Invalid unescaped hyphen as the end value for a range"]
  ELSE IF \/ (regexContext = "DEFAULT" /\ m \in {<<"?">>, <<"*">>, <<"+">>, <<"?", "?">>})
          \/ (regexContext = "INTERVAL_QUANTIFIER" /\ m = <<"{">>)
  THEN update(st, m, FALSE, st.lastSignificantToken = <<"(">> /\ m = <<"?">>)
  ELSE IF regexContext = "DEFAULT" THEN
    IF Len(m) = 1 /\ m[1] \in WsChars THEN [st EXCEPT !.ignoringWs = TRUE]
    ELSE IF m[1] = "#" THEN [st EXCEPT !.ignoringComment = TRUE]
    ELSE IF Len(m) = 2 /\ m[1] = BS /\ m[2] \in (WsChars \cup {"#"}) THEN update(st, <<m[2]>>, FALSE, FALSE)
    ELSE update(st, m, TRUE, FALSE)
  ELSE IF regexContext = "CHAR_CLASS" /\ m # <<"[">> /\ m # <<"[", "^">> THEN
    IF Len(m) = 1 /\ m[1] \in {" ", "\t"} /\ charClassContext \in {"DEFAULT", "RANGE", "Q_TOKEN"}
    THEN [st EXCEPT !.ignoringCharClassWs = TRUE]
    ELSE IF charClassContext = "INVALID_INCOMPLETE_TOKEN"
    THEN [st EXCEPT !.error = "Invalid incomplete token in character class"]
    ELSE IF Len(m) = 2 /\ m[1] = BS /\ m[2] \in {" ", "\t"} /\ charClassContext \in {"DEFAULT", "Q_TOKEN"}
    THEN update(st, <<m[2]>>, FALSE, FALSE)
    ELSE IF charClassContext = "DEFAULT"
    THEN update(st, sandboxLoneDoublePunctuatorChar(sandboxUnsafeNullsToken(m)), TRUE, FALSE)
    ELSE update(st, m, TRUE, FALSE)
  ELSE update(st, m, TRUE, FALSE)

\* the end of the loop body: unless the token was ignored (or an error thrown),
\* it becomes the last significant token
flagXSignificant(out, m, charClassContext) ==
  IF out.error # "none" \/ out.ignoringWs \/ out.ignoringCharClassWs \/ out.ignoringComment
  THEN out
  ELSE [out EXCEPT !.lastSignificantToken = m, !.lastSignificantCharClassContext = charClassContext]

\* the loop body once the running context rc after token m is known
flagXTracked(st0, m, rc) ==
  flagXSignificant(flagXBranch([st0 EXCEPT !.expression = @ \o m, !.runningContext = rc],
                               m, rc.regexContext, rc.charClassContext),
                   m, rc.charClassContext)

\* the part of the loop body after the three "ignoring" checks
flagXEmit(st0, m) ==
  flagXTracked(st0, m, getEndContextForIncompleteExpression(st0.expression \o m, st0.runningContext))

\* a round that asks for no separator at the end of a comment
flagXStepNoSeparator(st, m) ==
  IF st.ignoringComment THEN
    IF m = <<"\n">> THEN [st EXCEPT !.ignoringComment = FALSE] ELSE st
  ELSE IF st.ignoringWs THEN
    IF Len(m) = 1 /\ m[1] \in WsChars THEN st
    ELSE flagXEmit([st EXCEPT !.ignoringWs = FALSE, !.separatorNeeded = TRUE], m)
  ELSE IF st.ignoringCharClassWs THEN
    IF Len(m) = 1 /\ m[1] \in {" ", "\t"} THEN st
    ELSE flagXEmit([st EXCEPT !.ignoringCharClassWs = FALSE], m)
  ELSE flagXEmit(st, m)

\* one round of the for loop of flagXPreprocessor, on token m
flagXStep(st, m) ==
  IF st.ignoringComment THEN
    IF m = <<"\n">> THEN [st EXCEPT !.ignoringComment = FALSE, !.separatorNeeded = TRUE] ELSE st
  ELSE IF st.ignoringWs THEN
    IF Len(m) = 1 /\ m[1] \in WsChars THEN st
    ELSE flagXEmit([st EXCEPT !.ignoringWs = FALSE, !.separatorNeeded = TRUE], m)
  ELSE IF st.ignoringCharClassWs THEN
    IF Len(m) = 1 /\ m[1] \in {" ", "\t"} THEN st
    ELSE flagXEmit([st EXCEPT !.ignoringCharClassWs = FALSE], m)
  ELSE flagXEmit(st, m)

RECURSIVE flagXLoop(_, _, _)
flagXLoop(value, i, st) ==
  IF i > Len(value) \/ st.error # "none" THEN st
  ELSE LET n == flagXTokenLen(value, i)
       IN  flagXLoop(value, i + n, flagXStep(st, Slice(value, i, n)))

\* flagXPreprocessor(value, ctx): [transformed, ctx, error]
flagXPreprocessor(value, ctx) == preprocessorResult(flagXLoop(value, 1, flagXStart(ctx)))

\* ------------------------------------------------- the flag-n preprocessor
\* flagNPreprocessor of flag-n.js: outside character classes an unnamed capturing
\* group "(" becomes "(?:"; a numbered backreference is an error
flagNTokenLen(s, i) ==
  LET c1 == At(s, i)
      c2 == At(s, i + 1)
  IN  IF noncapturingDelimLen(s, i) > 0 THEN noncapturingDelimLen(s, i)
      ELSE IF c1 = "(" /\ c2 = "?" /\ At(s, i + 2) = "<" THEN 3
      ELSE IF c1 = BS /\ c2 \in (Digits \ {"0"}) THEN 2 + RunOf(s, i + 2, Digits, Len(s))
      ELSE IF c1 = BS /\ c2 # NoChar THEN 2
      ELSE 1

\* the body of the replace callback of flagNPreprocessor on token m, the running
\* context rc after the token known
flagNStep(st, m, rc) ==
  IF rc.regexContext = "DEFAULT" /\ m = <<"(">>
  THEN [st EXCEPT !.expression = @ \o m, !.runningContext = rc, !.transformed = @ \o <<"(", "?", ":">>]
  ELSE IF rc.regexContext = "DEFAULT" /\ m[1] = BS /\ At(m, 2) \in (Digits \ {"0"})
  THEN [st EXCEPT !.expression = @ \o m, !.runningContext = rc,
                  !.error = "Invalid numbered backreference with implicit flag n"]
  ELSE [st EXCEPT !.expression = @ \o m, !.runningContext = rc, !.transformed = @ \o m]

flagNToken(st, m) ==
  flagNStep(st, m, getEndContextForIncompleteExpression(st.expression \o m, st.runningContext))

RECURSIVE flagNLoop(_, _, _)
flagNLoop(value, i, st) ==
  IF i > Len(value) \/ st.error # "none" THEN st
  ELSE flagNLoop(value, i + flagNTokenLen(value, i), flagNToken(st, Slice(value, i, flagNTokenLen(value, i))))

flagNPreprocessor(value, ctx) ==
  preprocessorResult(flagNLoop(value, 1, [expression |-> <<>>, transformed |-> <<>>, runningContext |-> ctx, error |-> "none"]))

\* the preprocessor of the given name, applied
applyPreprocessor(pp, value, ctx) ==
  IF pp = "flagXPreprocessor" THEN flagXPreprocessor(value, ctx)
  ELSE flagNPreprocessor(value, ctx)

\* --------------------------------------------------------- subs
\* a substitution value: a string, a number, a pattern (text) or a RegExp (text is
\* its source, flags its own flags)
StringValue(text) == [kind |-> "string", text |-> text, num |-> 0, flags |-> <<>>]
NumberValue(n) == [kind |-> "number", text |-> <<>>, num |-> n, flags |-> <<>>]
PatternValue(text) == [kind |-> "pattern", text |-> text, num |-> 0, flags |-> <<>>]
RegExpValue(source, flags) == [kind |-> "regexp", text |-> source, num |-> 0, flags |-> flags]

\* the accumulator of preprocess after one text went through the preprocessor
\* with result r; item is what the text becomes in the new template
preprocessed(acc, field, item, r) ==
  IF field = "raw"
  THEN [acc EXCEPT !.raw = Append(@, item), !.runningContext = r.runningContext, !.error = r.error]
  ELSE [acc EXCEPT !.substitutions = Append(@, item), !.runningContext = r.runningContext, !.error = r.error]

preprocessRaw(acc, r) == preprocessed(acc, "raw", r.transformed, r)
preprocessPattern(acc, r) == preprocessed(acc, "substitutions", PatternValue(r.transformed), r)

\* the substitution after raw segment i: a pattern goes through the preprocessor,
\* any other value is kept as it is
preprocessSubstitution(acc, value, pp) ==
  IF acc.error # "none" THEN acc
  ELSE IF value.kind = "pattern"
  THEN preprocessPattern(acc, applyPreprocessor(pp, value.text, [acc.runningContext EXCEPT !.lastPos = 0]))
  ELSE [acc EXCEPT !.substitutions = Append(@, value)]

RECURSIVE preprocessLoop(_, _, _, _, _)
\* preprocess of utils.js: the preprocessor runs over the raw segments and the
\* pattern substitutions in template order, the running context carried along
\* with lastPos reset to 0 for each text
preprocessLoop(raw, subs, pp, i, acc) ==
  IF i > Len(raw) \/ acc.error # "none" THEN acc
  ELSE IF i = Len(raw)
  THEN preprocessRaw(acc, applyPreprocessor(pp, raw[i], [acc.runningContext EXCEPT !.lastPos = 0]))
  ELSE preprocessLoop(raw, subs, pp, i + 1,
         preprocessSubstitution(
           preprocessRaw(acc, applyPreprocessor(pp, raw[i], [acc.runningContext EXCEPT !.lastPos = 0])),
           subs[i], pp))

preprocess(raw, subs, pp) ==
  preprocessLoop(raw, subs, pp, 1, [raw |-> <<>>, substitutions |-> <<>>, runningContext |-> DefaultContext, error |-> "none"])

RECURSIVE runPreprocessors(_, _)
runPreprocessors(preprocessors, acc) ==
  IF preprocessors = <<>> \/ acc.error # "none" THEN acc
  ELSE runPreprocessors(Tail(preprocessors), preprocess(acc.raw, acc.substitutions, Head(preprocessors)))

\* handlePreprocessors(template, subs, o): flag x first, then flag n
handlePreprocessors(raw, subs, o) ==
  runPreprocessors((IF o.disable.x THEN <<>> ELSE <<"flagXPreprocessor">>)
                     \o (IF o.disable.n THEN <<>> ELSE <<"flagNPreprocessor">>),
                   [raw |-> raw, substitutions |-> subs, runningContext |-> DefaultContext, error |-> "none"])

\* ------------------------------------------------ regex-utilities' scanning
\* capturingDelim of utils.js: the length of a capturing-group opener at i, or 0
capturingDelimLen(s, i) ==
  IF At(s, i) # "(" THEN 0
  ELSE IF At(s, i + 1) # "?" THEN
    IF i >= 3 /\ s[i - 2] = "(" /\ s[i - 1] = "?" /\ StartsWithAt(s, i + 1, DefineWord \o <<")">>) THEN 0 ELSE 1
  ELSE IF At(s, i + 2) = "<" /\ At(s, i + 3) \notin {"=", "!", ">", NoChar} THEN
    LET k == RunOf(s, i + 3, {At(s, j) : j \in i + 3 .. Len(s)} \ {">"}, Len(s))
    IN  IF At(s, i + 3 + k) = ">" THEN 3 + k + 1 ELSE 0
  ELSE 0

RECURSIVE SepRun(_, _)
\* the number of separators (?:) that follow one another from position i
SepRun(s, i) == IF StartsWithAt(s, i, Sep) THEN 1 + SepRun(s, i + 4) ELSE 0

\* the second needle of cleanPlugin: a separator at i that may be removed
removableSepAt(s, i) ==
  LET next == At(s, i + 4)
      prev == At(s, i - 1)
      prev2 == At(s, i - 2)
      followedSafe == \/ next \in {")", "|", ".", "[", "$", BS}
                      \/ (next = "(" /\ ~StartsWithAt(s, i + 5, DefineWord))
                      \/ next = NoChar
      precededSafe == \/ prev \in {"(", ")", "|", ".", "]", "^", ">"}
                      \/ (prev2 = BS /\ prev \in {"b", "B", "d", "D", "f", "n", "r", "s", "S", "t", "v", "w", "W"})
                      \/ (At(s, i - 3) = "(" /\ prev2 = "?" /\ prev \in {":", "=", "!"})
                      \/ (At(s, i - 4) = "(" /\ At(s, i - 3) = "?" /\ prev2 = "<" /\ prev \in {"=", "!"})
                      \/ i = 1
  IN  /\ StartsWithAt(s, i, Sep)
      /\ (followedSafe \/ (precededSafe /\ next \notin {"?", "*", "+", "{"}))
      /\ ~StartsWithAt(s, i + 4, emulationGroupMarker)

\* the length of the match of the named needle at position i of s, or 0
needleLenAt(needle, s, i) ==
  CASE needle = "capturingDelim" -> capturingDelimLen(s, i)
    [] needle = "capturingDelimMark" ->
         LET n == capturingDelimLen(s, i)
         IN  IF n > 0 /\ StartsWithAt(s, i + n, emulationGroupMarker) THEN n + Len(emulationGroupMarker) ELSE n
    [] needle = "backref" ->
         IF At(s, i) = BS /\ At(s, i + 1) \in (Digits \ {"0"}) THEN 2 + RunOf(s, i + 2, Digits, Len(s)) ELSE 0
    [] needle = "nullEscape" -> IF At(s, i) = BS /\ At(s, i + 1) = "0" /\ At(s, i + 2) \notin Digits THEN 2 ELSE 0
    [] needle = "dot" -> IF At(s, i) = "." THEN 1 ELSE 0
    [] needle = "caret" -> IF At(s, i) = "^" THEN 1 ELSE 0
    [] needle = "dollar" -> IF At(s, i) = "$" THEN 1 ELSE 0
    [] needle = "repeatedSep" -> IF SepRun(s, i) >= 2 THEN 4 * SepRun(s, i) ELSE 0
    [] needle = "removableSep" -> IF removableSepAt(s, i) THEN 4 ELSE 0
    [] OTHER -> 0

RECURSIVE scanUnescaped(_, _, _, _, _)
\* the matchAll loop of replaceUnescaped / forEachUnescaped: the pieces of s from
\* position i on, each the needle's match (hit, when in the asked context) or a
\* skipped token; depth is the number of character classes open
scanUnescaped(s, needle, context, i, depth) ==
  IF i > Len(s) THEN <<>>
  ELSE LET n == needleLenAt(needle, s, i)
       IN  IF n > 0 /\ (context = "ANY" \/ ((context = "DEFAULT") = (depth = 0)))
           THEN <<[hit |-> TRUE, pos |-> i, m |-> Slice(s, i, n)]>> \o scanUnescaped(s, needle, context, i + n, depth)
           ELSE LET len == IF n > 0 THEN n
                           ELSE IF At(s, i) = "[" /\ At(s, i + 1) = "^" THEN 2
                           ELSE IF At(s, i) = BS /\ At(s, i + 1) # NoChar THEN 2
                           ELSE 1
                    m == Slice(s, i, len)
                    d == IF m[1] = "[" THEN depth + 1 ELSE IF m = <<"]">> /\ depth > 0 THEN depth - 1 ELSE depth
                IN  <<[hit |-> FALSE, pos |-> i, m |-> m]>> \o scanUnescaped(s, needle, context, i + len, d)

RECURSIVE countHits(_)
countHits(pieces) == IF pieces = <<>> THEN 0 ELSE (IF Head(pieces).hit THEN 1 ELSE 0) + countHits(Tail(pieces))

\* countCaptures of utils.js
countCaptures(expr) == countHits(scanUnescaped(expr, "capturingDelim", "DEFAULT", 1, 0))

\* replaceUnescaped(str, needle, replacement, context) with a constant replacement
replacePieces(pieces, replacement) ==
  Concat([k \in 1..Len(pieces) |-> IF pieces[k].hit THEN replacement ELSE pieces[k].m])

replaceNeedle(str, needle, replacement, context) ==
  replacePieces(scanUnescaped(str, needle, context, 1, 0), replacement)

\* sandboxUnsafeNulls(str, context) of utils.js
sandboxUnsafeNulls(str, context) == replaceNeedle(str, "nullEscape", <<BS, "x", "0", "0">>, context)

\* ----------------------------------------------------------------- numbers
DigitChars == <<"0", "1", "2", "3", "4", "5", "6", "7", "8", "9", "a", "b", "c", "d", "e", "f">>
DigitValue(c) == CHOOSE d \in 0..9 : DigitChars[d + 1] = c

RECURSIVE toStringRadix(_, _)
\* Number.prototype.toString(radix) of a non-negative integer
toStringRadix(n, radix) ==
  IF n < radix THEN <<DigitChars[n + 1]>> ELSE toStringRadix(n \div radix, radix) \o <<DigitChars[(n % radix) + 1]>>

RECURSIVE parseDecimal(_)
\* the unary + of JS on a string of decimal digits
parseDecimal(ds) == IF ds = <<>> THEN 0 ELSE 10 * parseDecimal(SubSeq(ds, 1, Len(ds) - 1)) + DigitValue(ds[Len(ds)])

\* adjustNumberedBackrefs of utils.js
shiftBackrefs(pieces, preceding) ==
  Concat([k \in 1..Len(pieces) |->
    IF pieces[k].hit THEN <<BS>> \o toStringRadix(parseDecimal(Tail(pieces[k].m)) + preceding, 10)
    ELSE pieces[k].m])

adjustNumberedBackrefs(expr, preceding) ==
  shiftBackrefs(scanUnescaped(expr, "backref", "DEFAULT", 1, 0), preceding)

\* ------------------------------------------------------------ interpolation
RECURSIVE escapeChars(_, _)
escapeChars(str, special) ==
  IF str = <<>> THEN <<>>
  ELSE (IF Head(str) \in special THEN <<BS, Head(str)>> ELSE <<Head(str)>>) \o escapeChars(Tail(str), special)

\* escapeV of utils.js
escapeV(str, context) ==
  IF context = "CHAR_CLASS"
  THEN escapeChars(str, {"(", ")", "[", "]", "{", "}", "|", BS, "/", "-"} \cup doublePunctuatorChars)
  ELSE escapeChars(str, {"(", ")", "[", "]", "{", "}", "|", BS, "^", "$", "*", "+", "?", "."})

RECURSIVE removeEscapes(_)
\* expression.replace(/\\./gsu, '')
removeEscapes(str) ==
  IF str = <<>> THEN <<>>
  ELSE IF Head(str) = BS /\ Len(str) >= 2 THEN removeEscapes(Tail(Tail(str)))
  ELSE <<Head(str)>> \o removeEscapes(Tail(str))

RECURSIVE getUnbalancedChar(_, _, _, _)
getUnbalancedChar(str, leftChar, rightChar, numOpen) ==
  IF str = <<>> THEN (IF numOpen > 0 THEN leftChar ELSE NoChar)
  ELSE IF Head(str) = leftChar THEN getUnbalancedChar(Tail(str), leftChar, rightChar, numOpen + 1)
  ELSE IF Head(str) = rightChar THEN
    (IF numOpen = 0 THEN rightChar ELSE getUnbalancedChar(Tail(str), leftChar, rightChar, numOpen - 1))
  ELSE getUnbalancedChar(Tail(str), leftChar, rightChar, numOpen)

Includes(str, c) == \E k \in 1..Len(str) : str[k] = c

\* getBreakoutChar of utils.js: the character of the value that would act outside it
getBreakoutChar(str, regexContext, charClassContext) ==
  LET escapesRemoved == removeEscapes(str)
  IN  IF Len(escapesRemoved) > 0 /\ escapesRemoved[Len(escapesRemoved)] = BS THEN BS
      ELSE IF regexContext = "DEFAULT" THEN getUnbalancedChar(escapesRemoved, "(", ")", 0)
      ELSE IF regexContext = "CHAR_CLASS" /\ charClassContext \notin enclosedTokenCharClassContexts
        THEN getUnbalancedChar(escapesRemoved, "[", "]", 0)
      ELSE IF \/ regexContext = "INTERVAL_QUANTIFIER"
              \/ regexContext \in enclosedTokenRegexContexts
              \/ charClassContext \in enclosedTokenCharClassContexts
        THEN (IF Includes(escapesRemoved, "}") THEN "}" ELSE NoChar)
      ELSE IF regexContext = "GROUP_NAME" THEN (IF Includes(escapesRemoved, ">") THEN ">" ELSE NoChar)
      ELSE NoChar

RECURSIVE unionScan(_, _, _, _)
\* the loop of containsCharClassUnion of utils.js: whether the class text holds more
\* than one node that is not joined by a range or set operator
unionScan(str, i, hasFirst, lastM) ==
  IF i > Len(str) THEN FALSE
  ELSE LET c1 == At(str, i)
           c2 == At(str, i + 1)
           len == IF c1 = BS /\ c2 # NoChar THEN 2
                  ELSE IF c1 \in {"-", "&"} /\ c2 = c1 THEN 2
                  ELSE 1
           m == Slice(str, i, len)
       IN  IF m = <<BS, "q">> THEN TRUE
           ELSE IF m \in {<<"-">>, <<"-", "-">>, <<"&", "&">>} THEN unionScan(str, i + len, FALSE, m)
           ELSE IF m # <<"[">> /\ m # <<"]">> THEN
             (IF hasFirst \/ lastM = <<"]">> THEN TRUE ELSE unionScan(str, i + len, TRUE, m))
           ELSE unionScan(str, i + len, hasFirst, m)

containsCharClassUnion(charClassPattern) == unionScan(charClassPattern, 1, FALSE, <<>>)

\* hasUnescaped(value, '^-|^&&|-$|&&$'): a range or set operator at an edge of the value
boundaryOperatorIn(pieces, n) ==
  n > 0 /\ \/ pieces[1].m = <<"-">>
           \/ (n >= 2 /\ pieces[1].m = <<"&">> /\ pieces[2].m = <<"&">>)
           \/ pieces[n].m = <<"-">>
           \/ (n >= 2 /\ pieces[n].m = <<"&">> /\ pieces[n - 1].m = <<"&">>)

hasBoundaryOperator(str) ==
  boundaryOperatorIn(scanUnescaped(str, "none", "ANY", 1, 0), Len(scanUnescaped(str, "none", "ANY", 1, 0)))

\* sandboxLoneCharClassCaret of utils.js
sandboxLoneCharClassCaret(str) == IF Len(str) >= 1 /\ str[1] = "^" THEN <<BS>> \o str ELSE str

newlines == <<BS, "n", BS, "r", BS, "u", "2", "0", "2", "8", BS, "u", "2", "0", "2", "9">>

\* re.flags.includes(f) !== outerFlags.includes(f)
flagDiffers(re, outerFlags, f) == Includes(re.flags, f) # Includes(outerFlags, f)

\* transformForLocalFlags, flag s: the dots of the source replaced
dotTransformed(re, outerFlags) ==
  IF flagDiffers(re, outerFlags, "s") /\ ~patternModsSupported
  THEN replaceNeedle(re.text, "dot",
         IF Includes(re.flags, "s") THEN <<"[", "^", "]">> ELSE <<"[", "^">> \o newlines \o <<"]">>, "DEFAULT")
  ELSE re.text

\* transformForLocalFlags, flag m: the anchors of value replaced
lineTransformed(re, outerFlags, value) ==
  IF flagDiffers(re, outerFlags, "m") /\ ~patternModsSupported
  THEN replaceNeedle(
         replaceNeedle(value, "caret",
           IF Includes(re.flags, "m") THEN <<"(", "?", "<", "=", "^", "|", "[">> \o newlines \o <<"]", ")">>
           ELSE <<"(", "?", "<", "!", "[", "^", "]", ")">>, "DEFAULT"),
         "dollar",
         IF Includes(re.flags, "m") THEN <<"(", "?", "=", "$", "|", "[">> \o newlines \o <<"]", ")">>
         ELSE <<"(", "?", "!", "[", "^", "]", ")">>, "DEFAULT")
  ELSE value

localFlagKeys == <<"i", "m", "s">>
\* the flags among i, m, s that differ and are on (or off) in the interpolated regex
modFlags(re, outerFlags, isOn) ==
  Concat([k \in 1..3 |-> IF flagDiffers(re, outerFlags, localFlagKeys[k]) /\ (Includes(re.flags, localFlagKeys[k]) = isOn)
                         THEN <<localFlagKeys[k]>> ELSE <<>>])

modifierOf(re, outerFlags) ==
  modFlags(re, outerFlags, TRUE)
    \o (IF modFlags(re, outerFlags, FALSE) # <<>> THEN <<"-">> \o modFlags(re, outerFlags, FALSE) ELSE <<>>)

localFlagsResult(re, outerFlags, value, modifier) ==
  IF flagDiffers(re, outerFlags, "i") /\ ~patternModsSupported
  THEN [value |-> <<>>, usedModifier |-> FALSE, error |-> "Pattern modifiers not supported, so flag i on the outer and interpolated regex must match"]
  ELSE IF patternModsSupported /\ modifier # <<>>
  THEN [value |-> <<"(", "?">> \o modifier \o <<":">> \o value \o <<")">>, usedModifier |-> TRUE, error |-> "none"]
  ELSE [value |-> value, usedModifier |-> FALSE, error |-> "none"]

\* transformForLocalFlags(re, outerFlags): [value, usedModifier, error]
transformForLocalFlags(re, outerFlags) ==
  localFlagsResult(re, outerFlags, lineTransformed(re, outerFlags, dotTransformed(re, outerFlags)), modifierOf(re, outerFlags))

Group(str) == <<"(", "?", ":">> \o str \o <<")">>
Class(str) == <<"[">> \o str \o <<"]">>
Thrown(msg) == [error |-> msg, text |-> <<>>]
Returned(str) == [error |-> "none", text |-> str]

\* interpolate, a RegExp in the default context: transformed is what
\* transformForLocalFlags returned
interpolateRegExp(transformed, preceding) ==
  IF transformed.error # "none" THEN Thrown(transformed.error)
  ELSE Returned(IF transformed.usedModifier THEN adjustNumberedBackrefs(transformed.value, preceding)
                ELSE Group(adjustNumberedBackrefs(transformed.value, preceding)))

\* a test for a code-point escape that does not look inside character classes
inCodePointEscapeRegexOnly(regexContext, charClassContext) == regexContext = "ENCLOSED_U"

\* the test for a code-point escape \u{...} that a number is rendered in
inCodePointEscape(regexContext, charClassContext) ==
  regexContext = "ENCLOSED_U" \/ charClassContext = "ENCLOSED_U"

\* interpolate, after its two leading throw statements
interpolateValue(value, flags, regexContext, charClassContext, wrapEscapedStr, preceding) ==
  LET isRegExp == value.kind = "regexp"
      isPattern == value.kind = "pattern"
      str == IF value.kind = "number" THEN toStringRadix(value.num, 10) ELSE value.text
      escapedValue == IF isPattern \/ isRegExp THEN <<>>
                      ELSE escapeV(str, IF regexContext = "CHAR_CLASS" THEN "CHAR_CLASS" ELSE "DEFAULT")
      breakoutChar == IF isRegExp THEN NoChar
                      ELSE getBreakoutChar(IF escapedValue # <<>> THEN escapedValue ELSE str, regexContext, charClassContext)
  IN  IF value.kind = "number" /\ inCodePointEscape(regexContext, charClassContext)
      THEN Returned(toStringRadix(value.num, 16))
      ELSE IF breakoutChar # NoChar
      THEN Thrown("Unescaped stray character in the interpolated value would have side effects outside it")
      ELSE IF \/ regexContext = "INTERVAL_QUANTIFIER"
              \/ regexContext = "GROUP_NAME"
              \/ regexContext \in enclosedTokenRegexContexts
              \/ charClassContext \in enclosedTokenCharClassContexts
      THEN Returned(IF isPattern THEN str ELSE escapedValue)
      ELSE IF regexContext = "CHAR_CLASS" THEN
        IF isPattern THEN
          IF hasBoundaryOperator(str)
          THEN Thrown("Cannot use range or set operator at boundary of interpolated pattern")
          ELSE LET sandboxedValue == sandboxLoneCharClassCaret(sandboxLoneDoublePunctuatorChar(str))
               IN  Returned(IF containsCharClassUnion(str) THEN Class(sandboxedValue)
                            ELSE sandboxUnsafeNulls(sandboxedValue, "ANY"))
        ELSE Returned(IF containsCharClassUnion(escapedValue) THEN Class(escapedValue) ELSE escapedValue)
      ELSE IF isRegExp THEN interpolateRegExp(transformForLocalFlags(value, flags), preceding)
      ELSE IF isPattern THEN Returned(Group(str))
      ELSE Returned(IF wrapEscapedStr THEN Group(escapedValue) ELSE escapedValue)

\* an interpolate without the check for an incomplete token before the hole
interpolateUnguarded(value, flags, regexContext, charClassContext, wrapEscapedStr, preceding) ==
  IF value.kind = "regexp" /\ regexContext # "DEFAULT"
  THEN Thrown("Cannot interpolate a RegExp at this position because the syntax context does not match")
  ELSE interpolateValue(value, flags, regexContext, charClassContext, wrapEscapedStr, preceding)

\* interpolate(value, flags, regexContext, charClassContext, wrapEscapedStr, precedingCaptures):
\* what it returns, or the error it throws
interpolate(value, flags, regexContext, charClassContext, wrapEscapedStr, preceding) ==
  IF value.kind = "regexp" /\ regexContext # "DEFAULT"
  THEN Thrown("Cannot interpolate a RegExp at this position because the syntax context does not match")
  ELSE IF regexContext = "INVALID_INCOMPLETE_TOKEN" \/ charClassContext = "INVALID_INCOMPLETE_TOKEN"
  THEN Thrown("Interpolation preceded by invalid incomplete token")
  ELSE interpolateValue(value, flags, regexContext, charClassContext, wrapEscapedStr, preceding)

\* ------------------------------------------------------------------ options
ImplicitFlags == {"n", "u", "v", "x"}
NoDisable == [x |-> FALSE, n |-> FALSE, v |-> FALSE, atomic |-> FALSE, subroutines |-> FALSE, clean |-> FALSE]
\* the options object {}: every key unset
EmptyOptions == [flags |-> <<>>, subclass |-> FALSE, plugins |-> <<>>, unicodeSetsPlugin |-> "unset", disable |-> NoDisable, force |-> [v |-> FALSE]]
NoOpts == [flags |-> <<>>, subclass |-> FALSE, plugins |-> <<>>, unicodeSetsPlugin |-> "null", disable |-> NoDisable, force |-> [v |-> FALSE]]

\* a choice of flag v that does not read force.v
useFlagVUnforced(o) == IF o.disable.v THEN FALSE ELSE flagVSupported

\* whether flag v is used: force.v || (disable.v ? false : flagVSupported)
useFlagV(o) == o.force.v \/ (IF o.disable.v THEN FALSE ELSE flagVSupported)

\* a flags test that looks at the first letter only
hasImplicitFlagFirst(flags) == flags # <<>> /\ flags[1] \in ImplicitFlags

\* the flags test of getOptions
hasImplicitFlag(flags) == \E k \in 1..Len(flags) : flags[k] \in ImplicitFlags

\* getOptions(options): [error, opts]
getOptions(o) ==
  IF hasImplicitFlag(o.flags)
  THEN [error |-> "Implicit flags v/u/x/n cannot be explicitly added", opts |-> NoOpts]
  ELSE [error |-> "none",
        opts |-> [o EXCEPT !.flags = @ \o (IF useFlagV(o) THEN <<"v">> ELSE <<"u">>),
                           !.unicodeSetsPlugin = IF useFlagV(o) THEN "null"
                                                 ELSE IF @ = "unset" THEN "backcompatPlugin" ELSE @]]

\* ------------------------------------------------------------------ plugins
RECURSIVE replaceChar(_, _, _)
\* str.replace(/c/g, replacement)
replaceChar(str, c, replacement) ==
  IF str = <<>> THEN <<>>
  ELSE (IF Head(str) = c THEN replacement ELSE <<Head(str)>>) \o replaceChar(Tail(str), c, replacement)

\* the plugin wiggle of the test suite
wiggle(str) == replaceChar(str, "~", <<"w", "i", "g", "g", "l", "e">>)

RECURSIVE removeRepeatedChars(_)
\* the plugin removeRepeatedChars of the test suite: str.replace(/(\w)\1+/g, '$1')
removeRepeatedChars(str) ==
  IF str = <<>> THEN <<>>
  ELSE IF Head(str) \in WordChars /\ At(str, 2) = Head(str) THEN removeRepeatedChars(Tail(str))
  ELSE <<Head(str)>> \o removeRepeatedChars(Tail(str))

\* the replacement unicodeSetsPlugin of the test suite: str.replace(/v/g, 'u')
customPlugin(str) == replaceChar(str, "v", <<"u">>)

\* cleanPlugin(expression)
cleanPlugin(expr) ==
  replaceNeedle(replaceNeedle(expr, "repeatedSep", Sep, "DEFAULT"), "removableSep", <<>>, "DEFAULT")

\* subroutinesPlugin, possessivePlugin, atomicPlugin and backcompatPlugin, on an
\* expression that holds none of the syntax they rewrite
externalPlugin(expr) == expr

\* the plugin p applied: p(expression, {flags, useEmulationGroups})
applyPlugin(p, expr) ==
  CASE p = "wiggle" -> wiggle(expr)
    [] p = "removeRepeatedChars" -> removeRepeatedChars(expr)
    [] p = "customPlugin" -> customPlugin(expr)
    [] p = "cleanPlugin" -> cleanPlugin(expr)
    [] OTHER -> externalPlugin(expr)

\* an array of plugins with the cleanup ahead of the built-in rewrites
handlePluginsCleanFirst(o) ==
  o.plugins
    \o (IF o.disable.x THEN <<>> ELSE <<"cleanPlugin">>)
    \o (IF o.disable.subroutines THEN <<>> ELSE <<"subroutinesPlugin">>)
    \o (IF o.disable.atomic THEN <<>> ELSE <<"possessivePlugin", "atomicPlugin">>)
    \o (IF o.unicodeSetsPlugin = "null" THEN <<>> ELSE <<o.unicodeSetsPlugin>>)

\* the array handlePlugins runs through, in its order
handlePlugins(o) ==
  o.plugins
    \o (IF o.disable.subroutines THEN <<>> ELSE <<"subroutinesPlugin">>)
    \o (IF o.disable.atomic THEN <<>> ELSE <<"possessivePlugin", "atomicPlugin">>)
    \o (IF o.disable.x THEN <<>> ELSE <<"cleanPlugin">>)
    \o (IF o.unicodeSetsPlugin = "null" THEN <<>> ELSE <<o.unicodeSetsPlugin>>)

\* -------------------------------------------------------------- capture map
\* unmarkEmulationGroups(expression): [expression, captureMap]
unmarkPieces(pieces) ==
  LET hits == SelectSeq(pieces, LAMBDA pc0 : pc0.hit)
      marked(m) == Len(m) > capturingDelimLen(m, 1)
  IN  [captureMap |-> <<TRUE>> \o [k \in 1..Len(hits) |-> ~marked(hits[k].m)],
       expression |-> Concat([k \in 1..Len(pieces) |->
                        IF pieces[k].hit /\ marked(pieces[k].m)
                        THEN SubSeq(pieces[k].m, 1, Len(pieces[k].m) - Len(emulationGroupMarker))
                        ELSE pieces[k].m])]

unmarkEmulationGroups(expr) == unmarkPieces(scanUnescaped(expr, "capturingDelimMark", "DEFAULT", 1, 0))

RECURSIVE execFilter(_, _, _)
\* the for loop of WrappedRegExp.exec: the entries copy[i..] whose captureMap entry is true
execFilter(copy, captureMap, i) ==
  IF i > Len(copy) THEN <<>>
  ELSE (IF i <= Len(captureMap) /\ captureMap[i] THEN <<copy[i]>> ELSE <<>>) \o execFilter(copy, captureMap, i + 1)

NoMatch == <<>>
\* WrappedRegExp.prototype.exec, given what RegExp.prototype.exec returned (NoMatch for null)
exec(w, match) ==
  IF match = NoMatch \/ ~w.hasMap THEN match
  ELSE <<match[1]>> \o execFilter(match, w.captureMap, 2)

\* ------------------------------------------------------------ the RegExp engine
\* new RegExp(pattern, flags) throws on flag v without support and on a repeated flag
RegExpThrows(pattern, flags) ==
  \/ (Includes(flags, "v") /\ ~flagVSupported)
  \/ \E j, k \in 1..Len(flags) : j # k /\ flags[j] = flags[k]

\* RegExp.prototype.source: the empty pattern reads (?:)
sourceOf(pattern) == IF pattern = <<>> THEN Sep ELSE pattern

\* the number of groups of a compiled pattern: the length of a match, less one
groupCount(pattern) == countCaptures(pattern)

\* ------------------------------------------------------------ the tag's call
NoResult == [ctor |-> "none", source |-> <<>>, flags |-> <<>>, wrapper |-> 0]
NoPrepped == [raw |-> <<>>, substitutions |-> <<>>]

\* the state before any call: flagVSupported and patternModsSupported are the
\* engine's, fixed when utils.js is loaded
InitCall ==
  /\ pc = "idle" /\ thisArg = "none" /\ options = EmptyOptions
  /\ template = <<>> /\ substitutions = <<>> /\ opts = NoOpts /\ prepped = NoPrepped
  /\ idx = 0 /\ precedingCaptures = 0 /\ expression = <<>> /\ runningContext = DefaultContext
  /\ holes = <<>> /\ stages = <<>> /\ stageLog = <<>> /\ result = NoResult
  /\ wrappers = <<>> /\ execs = <<>> /\ error = "none"

\* regex.bind(t)(first)`...` or regex.bind(t)`...`: regex passes the options on to
\* regexFromTemplate ({} for a template, {flags: first} for a flags string)
regex(t, o, raw, subs) ==
  /\ pc = "idle"
  /\ pc' = "getOptions"
  /\ thisArg' = t /\ options' = o /\ template' = raw /\ substitutions' = subs
  /\ UNCHANGED <<flagVSupported, patternModsSupported, opts, prepped, idx, precedingCaptures, expression, runningContext, holes, stages, stageLog, result, wrappers, execs, error>>

\* regexFromTemplate: const opts = getOptions(options)
GetOptions ==
  /\ pc = "getOptions"
  /\ LET r == getOptions(options)
     IN  /\ error' = r.error
         /\ opts' = r.opts
         /\ pc' = IF r.error = "none" THEN "handlePreprocessors" ELSE "error"
  /\ UNCHANGED <<flagVSupported, patternModsSupported, thisArg, options, template, substitutions, prepped, idx, precedingCaptures, expression, runningContext, holes, stages, stageLog, result, wrappers, execs>>

\* regexFromTemplate: const prepped = handlePreprocessors(template, substitutions, opts)
HandlePreprocessors ==
  /\ pc = "handlePreprocessors"
  /\ LET r == handlePreprocessors(template, substitutions, opts)
     IN  /\ error' = r.error
         /\ prepped' = IF r.error = "none" THEN [raw |-> r.raw, substitutions |-> r.substitutions] ELSE prepped
         /\ pc' = IF r.error = "none" THEN "forEach" ELSE "error"
  /\ idx' = 1 /\ precedingCaptures' = 0 /\ expression' = <<>> /\ runningContext' = DefaultContext
  /\ UNCHANGED <<flagVSupported, patternModsSupported, thisArg, options, template, substitutions, opts, holes, stages, stageLog, result, wrappers, execs>>

\* a hint that looks at the segment before the hole only
wrapEscapedStrBeforeOnly == prepped.raw[idx] # <<>>

\* the counts and the text one round of the forEach reaches before it interpolates
segmentCaptures == precedingCaptures + countCaptures(prepped.raw[idx])
segmentExpression == expression \o sandboxUnsafeNulls(prepped.raw[idx], "CHAR_CLASS")
segmentContext == getEndContextForIncompleteExpression(segmentExpression, runningContext)
wrapEscapedStr == prepped.raw[idx] # <<>> \/ (idx < Len(prepped.raw) /\ prepped.raw[idx + 1] # <<>>)

\* a count that forgets the captures of patterns
substitutionCapturesRegExpOnly(value) == IF value.kind = "regexp" THEN countCaptures(value.text) ELSE 0

\* the captures a substitution adds to the running count
substitutionCaptures(value) == IF value.kind \in {"regexp", "pattern"} THEN countCaptures(value.text) ELSE 0

\* the end of a round of the forEach that is followed by a hole: r is what
\* interpolate returned (or threw) for the substitution
Interpolated(substitution, before, ctx, captures, r) ==
  /\ holes' = Append(holes, [value |-> substitution, regexContext |-> ctx.regexContext,
                             charClassContext |-> ctx.charClassContext,
                             wrapEscapedStr |-> wrapEscapedStr, precedingCaptures |-> captures,
                             before |-> before, error |-> r.error, text |-> r.text])
  /\ error' = r.error
  /\ expression' = IF r.error = "none" THEN before \o r.text ELSE before
  /\ precedingCaptures' = IF r.error = "none" THEN captures + substitutionCaptures(substitution) ELSE captures
  /\ runningContext' = ctx
  /\ idx' = IF r.error = "none" THEN idx + 1 ELSE idx
  /\ pc' = IF r.error = "none" THEN "forEach" ELSE "error"

\* the round's call of interpolate, the expression, context and count before the hole known
Hole(substitution, before, ctx, captures) ==
  Interpolated(substitution, before, ctx, captures,
               interpolate(substitution, opts.flags, ctx.regexContext, ctx.charClassContext, wrapEscapedStr, captures))

\* one round of the forEach over prepped.template.raw that is followed by a hole
Segment ==
  /\ pc = "forEach" /\ idx < Len(prepped.raw)
  /\ Hole(prepped.substitutions[idx], segmentExpression, segmentContext, segmentCaptures)
  /\ UNCHANGED <<flagVSupported, patternModsSupported, thisArg, options, template, substitutions, opts, prepped, stages, stageLog, result, wrappers, execs>>

\* the last round of the forEach: no hole follows the last raw segment
LastSegment ==
  /\ pc = "forEach" /\ idx = Len(prepped.raw)
  /\ expression' = segmentExpression
  /\ precedingCaptures' = segmentCaptures
  /\ runningContext' = segmentContext
  /\ idx' = idx + 1
  /\ pc' = "handlePlugins"
  /\ UNCHANGED <<flagVSupported, patternModsSupported, thisArg, options, template, substitutions, opts, prepped, holes, stages, stageLog, result, wrappers, execs, error>>

\* handlePlugins: the array of plugins is built
HandlePlugins ==
  /\ pc = "handlePlugins"
  /\ stages' = handlePlugins(opts)
  /\ pc' = "plugins"
  /\ UNCHANGED <<flagVSupported, patternModsSupported, thisArg, options, template, substitutions, opts, prepped, idx, precedingCaptures, expression, runningContext, holes, stageLog, result, wrappers, execs, error>>

\* handlePlugins: one round of its forEach, expression = p(expression, data)
RunPlugin ==
  /\ pc = "plugins" /\ stages # <<>>
  /\ expression' = applyPlugin(Head(stages), expression)
  /\ stageLog' = Append(stageLog, [name |-> Head(stages), input |-> expression, output |-> expression'])
  /\ stages' = Tail(stages)
  /\ UNCHANGED <<pc, flagVSupported, patternModsSupported, thisArg, options, template, substitutions, opts, prepped, idx, precedingCaptures, runningContext, holes, result, wrappers, execs, error>>

\* the constructor regexFromTemplate builds its result with
resultConstructor(o, t) == IF o.subclass THEN "WrappedRegExp" ELSE "RegExp"

\* new RegExp(pattern, flags), or new WrappedRegExp(pattern, flags, {captureMap})
\* when opts.subclass is set
Constructed(pattern, captureMap) ==
  IF RegExpThrows(pattern, opts.flags)
  THEN /\ error' = "Invalid regular expression"
       /\ pc' = "error"
       /\ UNCHANGED <<result, wrappers>>
  ELSE /\ error' = "none"
       /\ pc' = "done"
       /\ wrappers' = IF opts.subclass
                      THEN Append(wrappers, [pattern |-> pattern, hasMap |-> TRUE, captureMap |-> captureMap, origin |-> 0])
                      ELSE wrappers
       /\ result' = [ctor |-> resultConstructor(opts, thisArg), source |-> sourceOf(pattern), flags |-> opts.flags,
                     wrapper |-> IF opts.subclass THEN Len(wrappers) + 1 ELSE 0]

Unmarked(unmarked) == Constructed(IF opts.subclass THEN unmarked.expression ELSE expression, unmarked.captureMap)

\* regexFromTemplate: the return statements
Construct ==
  /\ pc = "plugins" /\ stages = <<>>
  /\ Unmarked(unmarkEmulationGroups(expression))
  /\ UNCHANGED <<flagVSupported, patternModsSupported, thisArg, options, template, substitutions, opts, prepped, idx, precedingCaptures, expression, runningContext, holes, stages, stageLog, execs>>

\* new WrappedRegExp(w), without data: how matchAll and split copy a regex
Copy(w) ==
  /\ pc = "done" /\ w \in 1..Len(wrappers) /\ Len(wrappers) < MaxWrappers
  /\ wrappers' = Append(wrappers, [pattern |-> wrappers[w].pattern, hasMap |-> wrappers[w].hasMap, captureMap |-> wrappers[w].captureMap, origin |-> w])
  /\ UNCHANGED <<pc, flagVSupported, patternModsSupported, thisArg, options, template, substitutions, opts, prepped, idx, precedingCaptures, expression, runningContext, holes, stages, stageLog, result, execs, error>>

\* w.exec(str), RegExp.prototype.exec having returned match
Exec(w, match) ==
  /\ pc = "done" /\ w \in 1..Len(wrappers) /\ Len(execs) < MaxExec
  /\ execs' = Append(execs, [wrapper |-> w, match |-> match, result |-> exec(wrappers[w], match)])
  /\ UNCHANGED <<pc, flagVSupported, patternModsSupported, thisArg, options, template, substitutions, opts, prepped, idx, precedingCaptures, expression, runningContext, holes, stages, stageLog, result, wrappers, error>>

Compile == GetOptions \/ HandlePreprocessors \/ Segment \/ LastSegment \/ HandlePlugins \/ RunPlugin \/ Construct

\* ------------------------------------------- the calls made: options, pipeline
Sep3 == Sep \o Sep \o Sep
\* the templates of the test suite: `(?:)(?:)(?:)`, `^~$`, `^v$`, and `^${'v'}$`
Templates ==
  { [raw |-> <<Sep3>>, subs |-> <<>>],
    [raw |-> << <<"^", "~", "$">> >>, subs |-> <<>>],
    [raw |-> << <<"^", "v", "$">> >>, subs |-> <<>>],
    [raw |-> << <<"^">>, <<"$">> >>, subs |-> <<StringValue(<<"v">>)>>] }

FlagLetters == {"g", "n", "u", "v", "x"}
FlagStrings == UNION {[1..n -> FlagLetters] : n \in 0..MaxFlagLen}
UserPlugins == {"wiggle", "removeRepeatedChars"}
PluginLists == UNION {[1..n -> UserPlugins] : n \in 0..MaxPlugins}
UnicodeSetsPlugins == {"unset", "customPlugin", "null"}
ThisArgs == {"none", "SubRegExp", "fn"}

\* options that vary the flags and what getOptions reads
FlagOptions ==
  { [EmptyOptions EXCEPT !.flags = f, !.subclass = sc, !.disable.v = dv, !.force.v = fv] :
      f \in FlagStrings, sc \in BOOLEAN, dv \in BOOLEAN, fv \in BOOLEAN }

\* options that vary what handlePlugins reads
PipelineOptions ==
  { [EmptyOptions EXCEPT !.plugins = ps, !.unicodeSetsPlugin = usp, !.force.v = fv,
                         !.disable = [x |-> dx, n |-> FALSE, v |-> dv, atomic |-> da, subroutines |-> ds, clean |-> dc]] :
      ps \in PluginLists, usp \in UnicodeSetsPlugins, fv \in BOOLEAN,
      dx \in BOOLEAN, dv \in BOOLEAN, da \in BOOLEAN, ds \in BOOLEAN, dc \in BOOLEAN }

\* regex`...`
RegexTemplate == pc = "idle" /\ \E t \in ThisArgs, tpl \in Templates : regex(t, EmptyOptions, tpl.raw, tpl.subs)
\* regex(flags)`...`
RegexFlags == pc = "idle" /\ \E t \in ThisArgs, f \in FlagStrings, tpl \in Templates : regex(t, [EmptyOptions EXCEPT !.flags = f], tpl.raw, tpl.subs)
\* regex(options)`...`
RegexOptions == pc = "idle" /\ \E o \in FlagOptions \cup PipelineOptions, tpl \in Templates : regex("none", o, tpl.raw, tpl.subs)

Init == InitCall /\ flagVSupported \in BOOLEAN /\ patternModsSupported = FALSE
\* the same on an engine with flag v
InitFlagV == InitCall /\ flagVSupported = TRUE /\ patternModsSupported = FALSE
Next == RegexTemplate \/ RegexFlags \/ RegexOptions \/ Compile
Spec == Init /\ [][Next]_vars

\* ------------------------------------------------ the calls made: one hole
\* the literal text before and after a hole, one pair for each context the
\* tracker can end in: default, character class, range, \u{ \p{ \q{, group name,
\* interval quantifier, and the incomplete tokens \ \c \u00
Frames ==
  { [before |-> <<>>, after |-> <<>>],
    [before |-> <<"a">>, after |-> <<"b">>],
    [before |-> <<"[">>, after |-> <<"]">>],
    [before |-> <<"[", "a", "-">>, after |-> <<"]">>],
    [before |-> <<BS, "u", "{">>, after |-> <<"}">>],
    [before |-> <<"[", BS, "u", "{">>, after |-> <<"}", "]">>],
    [before |-> <<BS, "p", "{">>, after |-> <<"}">>],
    [before |-> <<"[", BS, "q", "{">>, after |-> <<"}", "]">>],
    [before |-> <<"(", "?", "<">>, after |-> <<">", "a", ")">>],
    [before |-> <<"a", "{">>, after |-> <<"}">>],
    [before |-> <<BS>>, after |-> <<>>],
    [before |-> <<"[", BS>>, after |-> <<"]">>],
    [before |-> <<BS, "u", "0", "0">>, after |-> <<>>],
    [before |-> <<"[", BS, "c">>, after |-> <<"]">>] }

\* the substitutions: strings, numbers, patterns and RegExps
Values ==
  { StringValue(<<"a">>), StringValue(<<"a", ".", "b">>),
    NumberValue(65), NumberValue(10),
    PatternValue(<<"a">>), PatternValue(<<"a", "-">>),
    RegExpValue(<<"a">>, <<>>), RegExpValue(<<".">>, <<"s">>), RegExpValue(<<"a">>, <<"i">>) }

\* regex({disable: {x}})`before${value}after`
RegexHole ==
  pc = "idle" /\ \E f \in Frames, value \in Values, dx \in BOOLEAN :
    regex("none", [EmptyOptions EXCEPT !.disable.x = dx], <<f.before, f.after>>, <<value>>)

InitInterp == InitCall /\ flagVSupported \in BOOLEAN /\ patternModsSupported \in BOOLEAN
NextInterp == RegexHole \/ Compile
SpecInterp == InitInterp /\ [][NextInterp]_vars

\* ------------------------------------------- the calls made: several holes
CountSegments == { <<>>, <<"b">>, <<"(", "a", ")">> }
\* '(s)', 65, pattern`(p)` and /(c)\1/
CountValues ==
  { StringValue(<<"(", "s", ")">>), NumberValue(65),
    PatternValue(<<"(", "p", ")">>), RegExpValue(<<"(", "c", ")", BS, "1">>, <<>>) }

\* regex({disable: {n}})`...${...}...` with up to MaxHoles holes
RegexHoles ==
  pc = "idle" /\ \E h \in 0..MaxHoles, dn \in BOOLEAN :
    \E raw \in [1..(h + 1) -> CountSegments], subs \in [1..h -> CountValues] :
      regex("none", [EmptyOptions EXCEPT !.disable.n = dn], raw, subs)

NextCount == RegexHoles \/ Compile
SpecCount == InitFlagV /\ [][NextCount]_vars

\* ---------------------------------- the calls made: subclass, copies and exec
\* pieces of a template: a literal, the groups (plain, marked, non-capturing,
\* marked twice, marked before ?:), a parenthesis in a class and an escaped one
Units ==
  { <<"a">>,
    <<"(", "a", ")">>,
    <<"(">> \o emulationGroupMarker \o <<"a", ")">>,
    <<"(", "?", ":", "a", ")">>,
    <<"(">> \o emulationGroupMarker \o emulationGroupMarker \o <<")">>,
    <<"(">> \o emulationGroupMarker \o <<"?", ":", "a", ")">>,
    <<"[", "(", "]">>,
    <<BS, "(">> }

\* regex({subclass: true, disable: {n}})`...` with up to MaxUnits pieces
RegexSubclass ==
  pc = "idle" /\ \E n \in 0..MaxUnits, dn \in BOOLEAN : \E us \in [1..n -> Units] :
    regex("none", [EmptyOptions EXCEPT !.subclass = TRUE, !.disable.n = dn], <<Concat(us)>>, <<>>)

CaptureLabels == <<"c1", "c2", "c3", "c4", "c5", "c6", "c7", "c8", "c9">>
\* what RegExp.prototype.exec returns on a match: the whole match, then one
\* entry for each group of the pattern
matchOf(pattern) == <<"m0">> \o SubSeq(CaptureLabels, 1, groupCount(pattern))

\* a string method copies a wrapper
CopyAny == \E w \in 1..MaxWrappers : Copy(w)
\* a wrapper's exec is called, on a string that matches or not
ExecAny ==
  \E w \in 1..MaxWrappers, isMatch \in BOOLEAN :
    /\ w <= Len(wrappers)
    /\ Exec(w, IF isMatch THEN matchOf(wrappers[w].pattern) ELSE NoMatch)

NextCapture ==
  \/ RegexSubclass \/ GetOptions \/ HandlePreprocessors \/ LastSegment
  \/ HandlePlugins \/ RunPlugin \/ Construct \/ CopyAny \/ ExecAny
SpecCapture == Init /\ [][NextCapture]_vars

\* ------------------------------- the calls made: extended mode over a hole
\* most tokens of a literal segment next to a hole
MaxSegTokens == 2

\* tokens of a segment: a literal, whitespace, a comment's start and end, a quantifier
ResumeUnits == { <<"a">>, <<" ">>, <<"#">>, <<"\n">>, <<"?">> }
ResumeSegments == { Concat(us) : us \in UNION {[1..n -> ResumeUnits] : n \in 0..MaxSegTokens} }

\* regex({disable: {n: true}})`...${'v'}...`, flag x on
RegexResume ==
  pc = "idle" /\ \E s1 \in ResumeSegments, s2 \in ResumeSegments :
    regex("none", [EmptyOptions EXCEPT !.disable.n = TRUE], <<s1, s2>>, <<StringValue(<<"v">>)>>)

NextResume == RegexResume \/ Compile
SpecResume == Init /\ [][NextResume]_vars

\* --------------------------------------- the calls made: extended mode
\* most tokens of a template written in extended mode
MaxTokens == 3

\* tokens of extended mode: a literal, whitespace, a newline, a comment's start,
\* the escaped space, hash and newline, quantifiers, a group's and an interval's opener
XUnits ==
  { <<"a">>, <<" ">>, <<"\n">>, <<"#">>, <<BS, " ">>, <<BS, "#">>, <<BS, "\n">>,
    <<"?">>, <<"+">>, <<"(">>, <<"{">> }

\* regex({disable: {n: true}})`...`, flag x on
RegexExtended ==
  pc = "idle" /\ \E n \in 0..MaxTokens : \E us \in [1..n -> XUnits] :
    regex("none", [EmptyOptions EXCEPT !.disable.n = TRUE], <<Concat(us)>>, <<>>)

NextExtended ==
  \/ RegexExtended \/ GetOptions \/ HandlePreprocessors \/ LastSegment
  \/ HandlePlugins \/ RunPlugin \/ Construct
SpecExtended == InitFlagV /\ [][NextExtended]_vars

\* ------------------------------------------- the calls made: separators
\* most pieces of a template that holds separators
MaxCleanUnits == 3

\* pieces of such a template: a separator, a literal, a group opener with the
\* marker, the marker, a plain opener, a closer, a quantifier and the brackets of a class
CleanUnits ==
  { Sep, <<"a">>, <<"(">> \o emulationGroupMarker, emulationGroupMarker, <<"(">>, <<")">>, <<"?">>, <<"[">>, <<"]">> }

\* regex({subclass: true, disable: {n: true}})`...`, the cleanup stage on
RegexSeparators ==
  pc = "idle" /\ \E n \in 0..MaxCleanUnits : \E us \in [1..n -> CleanUnits] :
    regex("none", [EmptyOptions EXCEPT !.subclass = TRUE, !.disable.n = TRUE], <<Concat(us)>>, <<>>)

NextSeparators ==
  \/ RegexSeparators \/ GetOptions \/ HandlePreprocessors \/ LastSegment
  \/ HandlePlugins \/ RunPlugin \/ Construct
SpecSeparators == InitFlagV /\ [][NextSeparators]_vars

\* ------------------------------- the calls made: a hole and its neighbours
\* the literal text next to a hole: none, a letter, or whitespace (which
\* extended mode strips)
BoundarySegments == { <<>>, <<"a">>, <<" ">> }
\* 'v', 'a.b', pattern`a.b` and pattern`a|b`
BoundaryValues ==
  { StringValue(<<"v">>), StringValue(<<"a", ".", "b">>),
    PatternValue(<<"a", ".", "b">>), PatternValue(<<"a", "|", "b">>) }

\* regex({disable: {x}})`before${value}after`
RegexBoundary ==
  pc = "idle" /\ \E before \in BoundarySegments, after \in BoundarySegments, value \in BoundaryValues, dx \in BOOLEAN :
    regex("none", [EmptyOptions EXCEPT !.disable.x = dx], <<before, after>>, <<value>>)

NextBoundary == RegexBoundary \/ Compile
SpecBoundary == Init /\ [][NextBoundary]_vars

\* ================================================================ properties
RECURSIVE SumSeq(_)
SumSeq(ns) == IF ns = <<>> THEN 0 ELSE Head(ns) + SumSeq(Tail(ns))

\* the plugins have all run
PluginsDone == pc = "done" \/ (pc = "plugins" /\ stages = <<>>)
\* the names of the stages run so far
StageNames == [i \in 1..Len(stageLog) |-> stageLog[i].name]
Ran(name) == \E i \in 1..Len(stageLog) : stageLog[i].name = name

\* ----------------------------------------------------------------------- C1
ReservedFlagsMessage == "Implicit flags v/u/x/n cannot be explicitly added"
ReservedLetterGiven == \E k \in 1..Len(options.flags) : options.flags[k] \in {"n", "u", "v", "x"}

\* C1: once getOptions has run, a call whose flags string holds one of the
\* letters n, u, v, x has failed with the implicit-flags error, nothing of the
\* pipeline has run and there is no result, whatever the other letters and
\* options; a call whose flags string holds none of them never carries that error
C1_ReservedFlags ==
  pc \notin {"idle", "getOptions"} =>
    IF ReservedLetterGiven
    THEN pc = "error" /\ error = ReservedFlagsMessage /\ result = NoResult /\ stageLog = <<>> /\ holes = <<>>
    ELSE error # ReservedFlagsMessage

\* regex({flags: 'gv', subclass: true}) has thrown
C1_Witness ==
  /\ pc = "error" /\ error = ReservedFlagsMessage
  /\ options.flags = <<"g", "v">> /\ options.subclass

\* ----------------------------------------------------------------------- C2
\* the place of a stage in the fixed order; the user's plugins come first
StageRank(name) ==
  CASE name \in UserPlugins -> 0
    [] name = "subroutinesPlugin" -> 1
    [] name = "possessivePlugin" -> 2
    [] name = "atomicPlugin" -> 3
    [] name = "cleanPlugin" -> 4
    [] OTHER -> 5

\* the expression the forEach assembled: the segments and the interpolated texts
Assembled ==
  Concat([i \in 1..Len(prepped.raw) |->
    sandboxUnsafeNulls(prepped.raw[i], "CHAR_CLASS") \o (IF i <= Len(holes) THEN holes[i].text ELSE <<>>)])

FlagVInEffect == options.force.v \/ (~options.disable.v /\ flagVSupported)
BackportStages == {"backcompatPlugin", "customPlugin"}

\* C5: a backport stage runs only when flag v is not in effect and the option
\* unicodeSetsPlugin is not null; it is then the caller's stage if one was
\* given, else the built-in one, and it is the last stage; when the pipeline has
\* ended without flag v and with a stage to run, the stage has run; the flags
\* of the options and of the result are the caller's followed by v when flag v
\* is in effect and by u otherwise
C5_BackportStage ==
  /\ \A i \in 1..Len(stageLog) :
       stageLog[i].name \in BackportStages =>
         /\ ~FlagVInEffect
         /\ options.unicodeSetsPlugin # "null"
         /\ stageLog[i].name = (IF options.unicodeSetsPlugin = "unset" THEN "backcompatPlugin" ELSE "customPlugin")
         /\ i = Len(stageLog) /\ stages = <<>>
  /\ PluginsDone =>
       ((\E i \in 1..Len(stageLog) : stageLog[i].name \in BackportStages)
          <=> (~FlagVInEffect /\ options.unicodeSetsPlugin # "null"))
  /\ (pc \notin {"idle", "getOptions"} /\ ~ReservedLetterGiven) =>
       opts.flags = options.flags \o (IF FlagVInEffect THEN <<"v">> ELSE <<"u">>)
  /\ pc = "done" => result.flags = options.flags \o (IF FlagVInEffect THEN <<"v">> ELSE <<"u">>)

\* regex({unicodeSetsPlugin: plugin, force: {v: true}, disable: {v: true}})`^v$`
\* on an engine with flag v: the caller's stage has not run, the flags are v
C5_Witness ==
  /\ pc = "done" /\ template = << <<"^", "v", "$">> >>
  /\ options.unicodeSetsPlugin = "customPlugin" /\ options.force.v /\ options.disable.v
  /\ ~Ran("customPlugin") /\ result.flags = <<"v">> /\ result.source = <<"^", "v", "$">>

\* ----------------------------------------------------------------------- C6
\* C6: a call through regex.bind(Ctor) returns a matcher built by Ctor, the
\* pipeline having run
C6_BoundConstructor ==
  (pc = "done" /\ thisArg # "none") => (result.ctor = thisArg /\ stageLog # <<>>)

\* ----------------------------------------------------------------------- C7
\* C7: with no option but disable.clean given, the template (?:)(?:)(?:)
\* compiles to the source (?:)(?:)(?:) when disable.clean is true, and to (?:)
\* or the empty source when it is false or unset
C7_DisableClean ==
  (pc = "done" /\ template = <<Sep3>> /\ options = [EmptyOptions EXCEPT !.disable.clean = options.disable.clean]) =>
    IF options.disable.clean THEN result.source = Sep3 ELSE result.source \in {Sep, <<>>}

\* ----------------------------------------------------------------------- C8
IncompleteToken == "INVALID_INCOMPLETE_TOKEN"

\* C8: a hole that holds a RegExp where the regex context is not DEFAULT, or any
\* value where the regex context or the character class context is
\* INVALID_INCOMPLETE_TOKEN, has thrown: it gave no text, the call has ended in
\* that error with no result, and neither a later hole nor a plugin has run
C8_InterpolationErrors ==
  \A i \in 1..Len(holes) :
    (\/ (holes[i].value.kind = "regexp" /\ holes[i].regexContext # "DEFAULT")
     \/ holes[i].regexContext = IncompleteToken
     \/ holes[i].charClassContext = IncompleteToken)
    => /\ holes[i].error # "none" /\ holes[i].text = <<>>
       /\ pc = "error" /\ error = holes[i].error /\ result = NoResult
       /\ i = Len(holes) /\ expression = holes[i].before /\ stageLog = <<>>

\* regex({disable: {x: true}})`[\${'a'}]` has thrown at its hole
C8_Witness ==
  /\ pc = "error" /\ Len(holes) = 1
  /\ template = << <<"[", BS>>, <<"]">> >>
  /\ holes[1].value = StringValue(<<"a">>)
  /\ holes[1].regexContext = "CHAR_CLASS" /\ holes[1].charClassContext = IncompleteToken
  /\ error = "Interpolation preceded by invalid incomplete token"

\* ----------------------------------------------------------------------- C9
\* the digits of the numbers interpolated, in base 16 and in base 10
HexDigitsOf(n) == IF n = 65 THEN <<"4", "1">> ELSE IF n = 10 THEN <<"a">> ELSE <<>>
DecimalDigitsOf(n) == IF n = 65 THEN <<"6", "5">> ELSE IF n = 10 THEN <<"1", "0">> ELSE <<>>

\* C9: a number interpolated without error gives its hexadecimal digits when
\* the hole is in \u{...}, in the regex or in a character class, and its decimal
\* digits (alone, or made atomic by a group or a class) anywhere else; in
\* \u{...} the digits are spliced bare between the two segments of the template,
\* so 65 gives 41
C9_NumberRendering ==
  \A i \in 1..Len(holes) :
    (holes[i].value.kind = "number" /\ holes[i].error = "none") =>
      LET n == holes[i].value.num
          dec == DecimalDigitsOf(n)
      IN  IF holes[i].regexContext = "ENCLOSED_U" \/ holes[i].charClassContext = "ENCLOSED_U"
          THEN /\ holes[i].text = HexDigitsOf(n)
               /\ (n = 65 => holes[i].text = <<"4", "1">>)
               /\ (pc = "handlePlugins" /\ Len(template) = 2) => expression = template[1] \o HexDigitsOf(n) \o template[2]
          ELSE holes[i].text \in {dec, <<"(", "?", ":">> \o dec \o <<")">>, <<"[">> \o dec \o <<"]">>}

\* regex`[\u{${65}}]` is assembled as [\u{41}]
C9_Witness ==
  /\ pc = "handlePlugins" /\ Len(holes) = 1
  /\ holes[1].value = NumberValue(65)
  /\ holes[1].regexContext = "CHAR_CLASS" /\ holes[1].charClassContext = "ENCLOSED_U"
  /\ expression = <<"[", BS, "u", "{", "4", "1", "}", "]">>

\* ---------------------------------------------------------------------- C10
\* the capturing groups of a substitution: those of a RegExp's source or of a
\* pattern's text, none for a string or a number
CapturesOf(value) == IF value.kind \in {"regexp", "pattern"} THEN countCaptures(value.text) ELSE 0
\* the capturing groups of segments 1..i and of substitutions 1..j of the call
CapturesUpTo(i, j) ==
  SumSeq([k \in 1..i |-> countCaptures(prepped.raw[k])]) + SumSeq([k \in 1..j |-> CapturesOf(prepped.substitutions[k])])
DecimalOf(n) == IF n < 10 THEN <<DigitChars[n + 1]>> ELSE <<DigitChars[(n \div 10) + 1], DigitChars[(n % 10) + 1]>>

\* the part of C10 that one state decides
C10_Counts ==
  /\ \A i \in 1..Len(holes) :
       /\ holes[i].precedingCaptures = CapturesUpTo(i, i - 1)
       /\ holes[i].precedingCaptures <= precedingCaptures
       /\ (i > 1 => holes[i - 1].precedingCaptures <= holes[i].precedingCaptures)
       /\ (holes[i].value = RegExpValue(<<"(", "c", ")", BS, "1">>, <<>>) /\ holes[i].error = "none") =>
            holes[i].text = <<"(", "?", ":", "(", "c", ")", BS>> \o DecimalOf(1 + holes[i].precedingCaptures) \o <<")">>
  /\ pc \in {"handlePlugins", "plugins", "done"} =>
       precedingCaptures = CapturesUpTo(Len(prepped.raw), Len(prepped.substitutions))

\* C10: the count handed to the interpolation of a hole is the number of
\* capturing groups of the segments up to the hole and of the RegExp and pattern
\* substitutions before it; the backreference \1 of an interpolated /(c)\1/ is
\* renumbered to 1 plus that count; after the last segment the count is the sum
\* over all segments and substitutions; and no step lowers the running count
C10_RunningCount == [](C10_Counts) /\ [][precedingCaptures' >= precedingCaptures]_vars

\* regex({disable: {n: true}})`(a)${pattern`(p)`}(a)${/(c)\1/}(a)`: the RegExp
\* is interpolated after 3 captures, as (?:(c)\4), and the total is 5
C10_Witness ==
  /\ pc = "done" /\ Len(holes) = 2 /\ options.disable.n
  /\ holes[1].value.kind = "pattern" /\ holes[1].precedingCaptures = 1
  /\ holes[2].value.kind = "regexp" /\ holes[2].precedingCaptures = 3
  /\ holes[2].text = <<"(", "?", ":", "(", "c", ")", BS, "4", ")">>
  /\ precedingCaptures = 5

\* ----------------------------------------------------------------------- C4
\* the capturing-group openers of expr outside character classes, left to right
Openers(expr) == SelectSeq(scanUnescaped(expr, "capturingDelim", "DEFAULT", 1, 0), LAMBDA piece : piece.hit)
\* the opener is immediately followed by the marker
Marked(expr, opener) == StartsWithAt(expr, opener.pos + Len(opener.m), emulationGroupMarker)
CountTrue(bs) == Cardinality({k \in 1..Len(bs) : bs[k]})

\* C4: for a wrapper built by the tag from the pipeline's output, the capture
\* map starts with true and holds, for each capturing-group opener of the
\* output, false when the marker follows the opener and true otherwise; its
\* length is 1 + the number of groups of the compiled pattern; no opener of the
\* pattern is followed by a marker; and the pattern is the output less one
\* marker for each false entry
C4_CaptureMap ==
  \A w \in 1..Len(wrappers) :
    wrappers[w].origin = 0 =>
      LET map == wrappers[w].captureMap
          openers == Openers(expression)
          pattern == wrappers[w].pattern
      IN  /\ map[1] = TRUE
          /\ Len(map) = 1 + Len(openers)
          /\ \A k \in 1..Len(openers) : map[k + 1] = ~Marked(expression, openers[k])
          /\ Len(map) = 1 + groupCount(pattern)
          /\ \A k \in 1..Len(Openers(pattern)) : ~Marked(pattern, Openers(pattern)[k])
          /\ Len(pattern) = Len(expression) - Len(emulationGroupMarker) * (Len(map) - CountTrue(map))

\* ----------------------------------------------------------------------- C3
\* the captures k >= 1 of match whose entry of the map is true, in their order
KeptCaptures(match, map) ==
  LET kept == SelectSeq([k \in 1..(Len(match) - 1) |-> k], LAMBDA k : k + 1 <= Len(map) /\ map[k + 1])
  IN  [j \in 1..Len(kept) |-> match[kept[j] + 1]]

\* C3: an exec of a wrapper that matched returns the whole match followed by
\* the captures whose map entry is true, in their order, as many entries as the
\* map has true ones; and a copy of a wrapper has the capture map of its origin
C3_ExecFilter ==
  /\ \A e \in 1..Len(execs) :
       execs[e].match # NoMatch =>
         LET map == wrappers[execs[e].wrapper].captureMap
         IN  /\ execs[e].result[1] = execs[e].match[1]
             /\ Tail(execs[e].result) = KeptCaptures(execs[e].match, map)
             /\ Len(execs[e].result) = CountTrue(map)
  /\ \A w \in 1..Len(wrappers) :
       wrappers[w].origin # 0 =>
         wrappers[w].hasMap /\ wrappers[w].captureMap = wrappers[wrappers[w].origin].captureMap

\* ---------------------------------------------------------------- C11
\* the locals of flagXPreprocessor when it has read the whole of segment value
LocalsAfter(value, st) == flagXLoop(value, 1, st)
\* an invocation that takes up the sub-state another one ended in: what is being
\* stripped, the pending separator and the last significant token are kept, the
\* texts of the invocation start empty
Resume(st) == [st EXCEPT !.expression = <<>>, !.transformed = <<>>, !.runningContext.lastPos = 0]
\* the segment ended inside a whitespace run or a comment, or with a separator pending
Stripping(st) == st.ignoringWs \/ st.ignoringComment \/ st.separatorNeeded
\* flag x ran over a template of two segments around a value that is not a pattern
ResumeCase ==
  /\ prepped # NoPrepped /\ ~opts.disable.x /\ opts.disable.n
  /\ Len(template) = 2 /\ substitutions[1].kind # "pattern"

\* C11: the whitespace/comment preprocessor is resumable: the second segment is
\* rewritten from the sub-state (stripping whitespace, inside a comment, separator
\* pending) the first segment ended in, so that when the first segment ends while
\* stripping, the two outputs together are the output of the two segments as one text
C11_Resumable ==
  ResumeCase =>
    LET st1 == LocalsAfter(template[1], flagXStart(DefaultContext))
    IN  /\ prepped.raw[2] = LocalsAfter(template[2], Resume(st1)).transformed
        /\ Stripping(st1) =>
             prepped.raw[1] \o prepped.raw[2] = flagXPreprocessor(template[1] \o template[2], DefaultContext).transformed

\* ---------------------------------------------------------------- C12
RECURSIVE TokensFrom(_, _)
\* the token sequence of a text: the matches of the preprocessor's token, in order
TokensFrom(text, i) ==
  IF i > Len(text) THEN <<>>
  ELSE <<Slice(text, i, flagXTokenLen(text, i))>> \o TokensFrom(text, i + flagXTokenLen(text, i))
TokensOf(text) == TokensFrom(text, 1)

UnescapedWs(m) == Len(m) = 1 /\ m[1] \in WsChars
EscapedWsOrHash(m) == Len(m) = 2 /\ m[1] = BS /\ m[2] \in (WsChars \cup {"#"})
QuantifierTokens == { <<"?">>, <<"*">>, <<"+">>, <<"?", "?">>, <<"{">> }

\* extended mode ran over a template of one segment, flag n off
ExtendedCase ==
  /\ prepped # NoPrepped /\ ~opts.disable.x /\ opts.disable.n /\ Len(template) = 1

\* the tracker is in its default context after every token of the text
AllDefault(text) ==
  \A k \in 1..Len(TokensOf(text)) :
    getEndContextForIncompleteExpression(Concat(SubSeq(TokensOf(text), 1, k)), DefaultContext).regexContext = "DEFAULT"

RECURSIVE Densified(_, _, _, _, _)
\* the text the rules of the default context ask for, token by token from the
\* k-th: whitespace and comments (from a token that starts with # to the next
\* newline token) are dropped, an escaped whitespace or # is left bare, any other
\* token is kept; a separator for what was dropped just before goes before a kept
\* token that is no quantifier, and after a lone ? that follows a kept (
Densified(ts, k, inComment, pending, last) ==
  IF k > Len(ts) THEN <<>>
  ELSE IF inComment THEN Densified(ts, k + 1, ts[k] # <<"\n">>, TRUE, last)
  ELSE IF UnescapedWs(ts[k]) THEN Densified(ts, k + 1, FALSE, TRUE, last)
  ELSE IF ts[k][1] = "#" THEN Densified(ts, k + 1, TRUE, TRUE, last)
  ELSE IF EscapedWsOrHash(ts[k]) THEN <<ts[k][2]>> \o Densified(ts, k + 1, FALSE, FALSE, ts[k])
  ELSE IF ts[k] \in QuantifierTokens
  THEN ts[k] \o (IF ts[k] = <<"?">> /\ last = <<"(">> THEN Sep ELSE <<>>) \o Densified(ts, k + 1, FALSE, FALSE, ts[k])
  ELSE (IF pending THEN Sep ELSE <<>>) \o ts[k] \o Densified(ts, k + 1, FALSE, FALSE, ts[k])

RECURSIVE WithoutSeparators(_, _)
\* a text with the separators (?:) left out
WithoutSeparators(text, i) ==
  IF i > Len(text) THEN <<>>
  ELSE IF StartsWithAt(text, i, Sep) THEN WithoutSeparators(text, i + 4)
  ELSE <<text[i]>> \o WithoutSeparators(text, i + 1)

RECURSIVE Kept(_, _, _)
\* the tokens kept, separators apart: neither whitespace nor part of a comment
Kept(ts, k, inComment) ==
  IF k > Len(ts) THEN <<>>
  ELSE IF inComment THEN Kept(ts, k + 1, ts[k] # <<"\n">>)
  ELSE IF UnescapedWs(ts[k]) THEN Kept(ts, k + 1, FALSE)
  ELSE IF ts[k][1] = "#" THEN Kept(ts, k + 1, TRUE)
  ELSE (IF EscapedWsOrHash(ts[k]) THEN <<ts[k][2]>> ELSE ts[k]) \o Kept(ts, k + 1, FALSE)

Rewritten(text) == flagXPreprocessor(text, DefaultContext).transformed
\* the text ends with an unescaped (
EndsWithOpener(text) ==
  Len(text) >= 1 /\ text[Len(text)] = "(" /\ At(text, Len(text) - 1) # BS
\* token k of the text is read by the loop, not skipped as part of a comment
ReadToken(ts, k) == ~LocalsAfter(Concat(SubSeq(ts, 1, k - 1)), flagXStart(DefaultContext)).ignoringComment
\* the separator that comes with quantifier q, the text before it rewritten as before
SeparatorAfter(q, before) == IF q = <<"?">> /\ EndsWithOpener(before) THEN Sep ELSE <<>>

RECURSIVE SeparatorsOutside(_, _, _)
\* where the separators outside character classes start, from position i on,
\* depth classes being open
SeparatorsOutside(text, i, depth) ==
  IF i > Len(text) THEN {}
  ELSE IF text[i] = BS THEN SeparatorsOutside(text, i + 2, depth)
  ELSE IF text[i] = "[" THEN SeparatorsOutside(text, i + 1, depth + 1)
  ELSE IF text[i] = "]" THEN SeparatorsOutside(text, i + 1, IF depth > 0 THEN depth - 1 ELSE 0)
  ELSE IF depth = 0 /\ StartsWithAt(text, i, Sep) THEN {i} \cup SeparatorsOutside(text, i + 4, depth)
  ELSE SeparatorsOutside(text, i + 1, depth)

RECURSIVE WithoutAt(_, _, _)
\* the text without the separators that start at the positions of gone
WithoutAt(text, gone, i) ==
  IF i > Len(text) THEN <<>>
  ELSE IF i \in gone THEN WithoutAt(text, gone, i + 4)
  ELSE <<text[i]>> \o WithoutAt(text, gone, i + 1)

\* the text with every run of separators outside classes made one separator
Collapsed(text) ==
  WithoutAt(text, {p \in SeparatorsOutside(text, 1, 0) : p + 4 \in SeparatorsOutside(text, 1, 0)}, 1)

\* the separator at p stands right before a marker or right after one
NextToMarker(text, p) ==
  \/ StartsWithAt(text, p + 4, emulationGroupMarker)
  \/ (p > Len(emulationGroupMarker) /\ StartsWithAt(text, p - Len(emulationGroupMarker), emulationGroupMarker))

\* C14: the cleanup stage makes every run of separators outside character
\* classes one separator, and what it then deletes are separators outside
\* character classes none of which stands right before or right after a
\* synthetic-capture marker
C14_CleanupKeeps ==
  \A k \in 1..Len(stageLog) :
    stageLog[k].name = "cleanPlugin" =>
      \E gone \in SUBSET SeparatorsOutside(Collapsed(stageLog[k].input), 1, 0) :
        /\ \A p \in gone : ~NextToMarker(Collapsed(stageLog[k].input), p)
        /\ stageLog[k].output = WithoutAt(Collapsed(stageLog[k].input), gone, 1)

\* ---------------------------------------------------------------- C15
\* 'a.b' escaped for the default context; 'v' needs no escape
EscapedForm(text) == IF text = <<"a", ".", "b">> THEN <<"a", BS, ".", "b">> ELSE text
\* literal text adjoins hole k: the segment before it or the one after it, as the
\* assembly reads them, is not empty
Adjoins(k) == prepped.raw[k] # <<>> \/ prepped.raw[k + 1] # <<>>

\* C15: in the default context a plain string comes out escaped, inside a
\* non-capturing group exactly when the segment before the hole or the one after
\* it is not empty, and bare when both are empty; a pattern comes out inside a
\* non-capturing group and unescaped, whatever the segments
C15_DefaultInterpolation ==
  \A k \in 1..Len(holes) :
    (holes[k].error = "none" /\ holes[k].regexContext = "DEFAULT") =>
      /\ holes[k].value.kind = "string" =>
           holes[k].text = IF Adjoins(k) THEN Group(EscapedForm(holes[k].value.text)) ELSE EscapedForm(holes[k].value.text)
      /\ holes[k].value.kind = "pattern" => holes[k].text = Group(holes[k].value.text)

\* 'a.b' in a hole with text only after it: wrapped and escaped
C15_Witness ==
  /\ Len(holes) = 1 /\ holes[1].error = "none" /\ holes[1].regexContext = "DEFAULT"
  /\ prepped.raw = << <<>>, <<"a">> >>
  /\ holes[1].value = StringValue(<<"a", ".", "b">>)
  /\ holes[1].text = Group(<<"a", BS, ".", "b">>)

====
